---- MODULE Spec2Model ----
(***************************************************************************)
(* sdformat: the typed SDFormat schema of src/sdformat/src/lib.rs and the  *)
(* codec its serde derives generate.                                       *)
(*                                                                         *)
(* Every entity derives Serialize and Deserialize.  The derive of a struct *)
(* is determined by its field list and the serde attributes on it, so each *)
(* struct is modelled as its field table (rust name, serde key, type,      *)
(* default attribute) and one table-driven decoder / encoder plays the     *)
(* part of the generated visit_map / serialize_struct.                     *)
(*                                                                         *)
(* The XML side is serde_xml_rs (lib.rs:200).  Its conventions used here:  *)
(*  - a struct is read from an element as a map: one key per attribute,    *)
(*    then one key per child element; the key of a child is its tag, or    *)
(*    "$value" when the struct has a field named "$value";                 *)
(*  - a Vec field reads the run of consecutive siblings with one tag;      *)
(*  - a struct is written as an element whose fields are child elements in *)
(*    declaration order; a None field writes nothing between its tags.     *)
(***************************************************************************)
EXTENDS Integers, Sequences, FiniteSets, TLC

VARIABLES target, input, origin, doc, encoded, redecoded, pc

vars == <<target, input, origin, doc, encoded, redecoded, pc>>

(***************************************************************************)
(* Bounds of the explored inputs.                                          *)
(***************************************************************************)
MaxKids == 2

(***************************************************************************)
(* XML elements and results.                                               *)
(***************************************************************************)
E(tag, attrs, kids, text) == [tag |-> tag, attrs |-> attrs, kids |-> kids, text |-> text]

Leaf(tag, text) == E(tag, <<>>, <<>>, text)

NoElem == E("", <<>>, <<>>, "")

Ok(v) == [ok |-> TRUE, val |-> v]

Err(e) == [ok |-> FALSE, err |-> e]

None == <<>>

Some(v) == <<v>>

(***************************************************************************)
(* Default functions.                                                      *)
(***************************************************************************)
DEFAULT_VERSION == "1.8"

default_version == DEFAULT_VERSION

true_default == TRUE

some_true_default_none == None

some_true_default == Some(TRUE)

some_false_default == Some(FALSE)

(***************************************************************************)
(* Field tables.  F(rust name, serde key, type, is Option, element type,   *)
(* default attribute).  dflt is "required" when the field carries no       *)
(* #[serde(default ...)] attribute, "default" for #[serde(default)], and   *)
(* the name of the default function otherwise.                             *)
(***************************************************************************)
F(name, key, kind, opt, ety, dflt) ==
    [name |-> name, key |-> key, kind |-> kind, opt |-> opt, ety |-> ety, dflt |-> dflt]

Sdf_optional_type == <<
    F("version", "$value", "String", FALSE, "", "default_version"),
    F("sdf_type", "$value", "enum", TRUE, "SdfType", "required") >>

Sdf == <<
    F("version", "$value", "String", FALSE, "", "default_version"),
    F("sdf_type", "$value", "enum", FALSE, "SdfType", "required") >>

SdfType == {"world", "model", "actor", "light"}

World == <<>>

ModelWith(nameDflt, aadDflt, windDflt) == <<
    F("name", "name", "String", FALSE, "", nameDflt),
    F("canonical_link", "canonical_link", "String", TRUE, "", "default"),
    F("placement_frame", "placement_frame", "String", TRUE, "", "default"),
    F("static", "static", "bool", TRUE, "", "default"),
    F("self_collide", "self_collide", "bool", TRUE, "", "default"),
    F("allow_auto_disable", "allow_auto_disable", "bool", TRUE, "", aadDflt),
    F("include", "include", "Vec", FALSE, "Include", "default"),
    F("model", "model", "Vec", FALSE, "NestedModel", "default"),
    F("enable_wind", "enable_wind", "bool", TRUE, "", windDflt),
    F("frame", "frame", "Vec", FALSE, "Frame", "default"),
    F("pose", "pose", "String", TRUE, "", "default"),
    F("link", "link", "Vec", FALSE, "Link", "default"),
    F("joint", "joint", "Vec", FALSE, "Joint", "default"),
    F("plugin", "plugin", "Vec", FALSE, "Plugin", "default"),
    F("gripper", "gripper", "Vec", FALSE, "Gripper", "default") >>

Model_name_default == ModelWith("default", "some_true_default", "some_false_default")

Model == ModelWith("required", "some_true_default", "some_false_default")

Include == <<
    F("uri", "uri", "String", FALSE, "", "required"),
    F("name", "name", "String", TRUE, "", "required"),
    F("static", "static", "bool", TRUE, "", "required"),
    F("placement_frame", "placement_frame", "String", TRUE, "", "required"),
    F("pose", "pose", "String", TRUE, "", "required"),
    F("plugin", "plugin", "Vec", FALSE, "Plugin", "required") >>

Plugin == <<
    F("name", "name", "String", FALSE, "", "required"),
    F("filename", "filename", "String", FALSE, "", "required") >>

Frame == <<
    F("name", "name", "String", FALSE, "", "required"),
    F("attached_to", "attached_to", "String", TRUE, "", "required"),
    F("pose", "pose", "String", TRUE, "", "required") >>

NestedModel == << F("name", "name", "String", FALSE, "", "required") >>

Link == << F("name", "name", "String", FALSE, "", "required") >>

Joint == <<>>

Gripper == <<
    F("name", "name", "String", FALSE, "", "required"),
    F("grasp_check", "grasp_check", "struct", TRUE, "GraspCheck", "required"),
    F("gripper_link", "gripper_link", "String", TRUE, "", "required"),
    F("palm_link", "palm_link", "String", TRUE, "", "required") >>

GraspCheck == <<
    F("detach_step", "detach_step", "i64", TRUE, "", "required"),
    F("attach_step", "attach_step", "i64", TRUE, "", "required"),
    F("min_contact_count", "min_contact_count", "u64", TRUE, "", "required") >>

Fields(ty) ==
    CASE ty = "Sdf" -> Sdf
      [] ty = "World" -> World
      [] ty = "Model" -> Model
      [] ty = "Include" -> Include
      [] ty = "Plugin" -> Plugin
      [] ty = "Frame" -> Frame
      [] ty = "NestedModel" -> NestedModel
      [] ty = "Link" -> Link
      [] ty = "Joint" -> Joint
      [] ty = "Gripper" -> Gripper
      [] ty = "GraspCheck" -> GraspCheck

Rename(ty) ==
    CASE ty = "Sdf" -> "sdf"
      [] ty = "World" -> "world"
      [] ty = "Model" -> "model"
      [] ty = "Include" -> "include"
      [] ty = "Plugin" -> "plugin"
      [] ty = "Frame" -> "frame"
      [] ty = "NestedModel" -> "model"
      [] ty = "Link" -> "link"
      [] ty = "Joint" -> "joint"
      [] ty = "Gripper" -> "gripper"
      [] ty = "GraspCheck" -> "grasp_check"

(***************************************************************************)
(* Decode.                                                                 *)
(***************************************************************************)
Range(s) == {s[i] : i \in 1..Len(s)}

\* The struct has a field whose serde key is "$value".
HasValueField(ty) == \E f \in Range(Fields(ty)) : f.key = "$value"

\* The generated field identifier: the first field whose key matches, or 0
\* (ignored: no struct denies unknown fields).
FieldOf(ty, key) ==
    LET hits == {k \in 1..Len(Fields(ty)) : Fields(ty)[k].key = key}
    IN IF hits = {} THEN 0 ELSE CHOOSE k \in hits : \A h \in hits : k <= h

\* The keys the map access hands to the visitor for element e read as ty.
Entry(key, kind, text, el) == [key |-> key, kind |-> kind, text |-> text, el |-> el]

KeyStream(ty, e) ==
    [i \in 1..Len(e.attrs) |-> Entry(e.attrs[i][1], "attr", e.attrs[i][2], NoElem)]
    \o [i \in 1..Len(e.kids) |->
          Entry(IF HasValueField(ty) THEN "$value" ELSE e.kids[i].tag, "elem", "", e.kids[i])]
    \o (IF e.kids = <<>> /\ e.text # ""
        THEN << Entry("$value", "chars", e.text, NoElem) >> ELSE <<>>)

\* The text a scalar is parsed from.  inner: the struct has a "$value"
\* field, so the child element is not entered before the scalar is read.
ScalarText(en, inner, emptyOk) ==
    CASE en.kind = "attr" -> Ok(en.text)
      [] en.kind = "chars" -> Ok(en.text)
      [] en.kind = "elem" ->
           IF inner \/ en.el.kids # <<>> THEN Err("unexpected token")
           ELSE IF en.el.text = "" /\ ~emptyOk THEN Err("unexpected token")
           ELSE Ok(en.el.text)

ParseBool(t) ==
    CASE t = "true" -> Ok(TRUE)
      [] t = "false" -> Ok(FALSE)
      [] OTHER -> Err("invalid bool")

IntTexts == [t \in {"40", "20", "2", "0", "-1"} |->
               CASE t = "40" -> 40 [] t = "20" -> 20 [] t = "2" -> 2
                 [] t = "0" -> 0 [] t = "-1" -> 0 - 1]

ParseI64(t) == IF t \in DOMAIN IntTexts THEN Ok(IntTexts[t]) ELSE Err("invalid int")

ParseU64(t) ==
    IF t \in DOMAIN IntTexts /\ IntTexts[t] >= 0 THEN Ok(IntTexts[t]) ELSE Err("invalid int")

DecodeScalar(f, en, inner) ==
    LET t == ScalarText(en, inner, f.kind = "String")
    IN IF ~t.ok THEN t
       ELSE CASE f.kind = "String" -> Ok(t.val)
              [] f.kind = "bool" -> ParseBool(t.val)
              [] f.kind = "i64" -> ParseI64(t.val)
              [] f.kind = "u64" -> ParseU64(t.val)

\* Default::default() of the field's type, or its named default function.
DefaultOf(f) ==
    CASE f.dflt = "default_version" -> default_version
      [] f.dflt = "some_true_default" -> some_true_default
      [] f.dflt = "some_false_default" -> some_false_default
      [] f.opt -> None
      [] f.kind = "Vec" -> <<>>
      [] f.kind = "String" -> ""

\* A key that never came: the default attribute if there is one, else
\* serde's missing_field, which yields None for an Option and fails otherwise.
Absent(f) ==
    IF f.dflt # "required" THEN Ok(DefaultOf(f))
    ELSE IF f.opt THEN Ok(None)
    ELSE Err("missing field")

\* Last index of the run of consecutive child elements tagged like es[i].
RECURSIVE RunEnd(_, _)
RunEnd(es, i) ==
    IF i < Len(es) /\ es[i + 1].kind = "elem" /\ es[i + 1].el.tag = es[i].el.tag
    THEN RunEnd(es, i + 1) ELSE i

RECURSIVE DecodeElem(_, _)
RECURSIVE DecodeFields(_, _, _, _)
RECURSIVE DecodeValue(_, _, _, _)

\* An externally tagged SdfType read from an element: the tag names the
\* variant; world and model wrap a struct, actor and light are units.
DecodeEnum(el) ==
    CASE el.tag = "world" ->
           LET r == DecodeElem("World", el)
           IN IF r.ok THEN Ok([variant |-> "world", val |-> r.val]) ELSE r
      [] el.tag = "model" ->
           LET r == DecodeElem("Model", el)
           IN IF r.ok THEN Ok([variant |-> "model", val |-> r.val]) ELSE r
      [] el.tag \in {"actor", "light"} ->
           IF el.kids = <<>> /\ el.text = ""
           THEN Ok([variant |-> el.tag, val |-> <<>>]) ELSE Err("unexpected token")
      [] OTHER -> Err("unknown variant")

\* The value of field f read at entry i; next is the first entry after it.
DecodeValue(f, es, i, inner) ==
    LET en == es[i]
        one(r) == IF r.ok THEN [ok |-> TRUE, val |-> IF f.opt THEN Some(r.val) ELSE r.val,
                                next |-> i + 1]
                  ELSE r
    IN CASE f.kind = "Vec" ->
              IF en.kind # "elem" THEN Err("invalid type")
              ELSE LET j == RunEnd(es, i)
                       items == [n \in 1..(j - i + 1) |-> DecodeElem(f.ety, es[i + n - 1].el)]
                   IN IF \E n \in DOMAIN items : ~items[n].ok
                      THEN Err("invalid item")
                      ELSE [ok |-> TRUE, val |-> [n \in DOMAIN items |-> items[n].val],
                            next |-> j + 1]
         [] f.kind = "struct" ->
              IF en.kind # "elem" THEN Err("invalid type") ELSE one(DecodeElem(f.ety, en.el))
         [] f.kind = "enum" ->
              IF en.kind # "elem" THEN Err("invalid type") ELSE one(DecodeEnum(en.el))
         [] OTHER -> one(DecodeScalar(f, en, inner))

\* The generated visit_map: acc[k] is <<>> until field k is read.
DecodeFields(ty, es, i, acc) ==
    LET fs == Fields(ty)
    IN IF i > Len(es)
       THEN LET fin == [k \in 1..Len(fs) |-> IF acc[k] # <<>> THEN Ok(acc[k][1]) ELSE Absent(fs[k])]
            IN IF \E k \in 1..Len(fs) : ~fin[k].ok
               THEN Err("missing field")
               ELSE Ok([nm \in {fs[k].name : k \in 1..Len(fs)} |->
                          fin[CHOOSE k \in 1..Len(fs) : fs[k].name = nm].val])
       ELSE LET k == FieldOf(ty, es[i].key)
            IN IF k = 0 THEN DecodeFields(ty, es, i + 1, acc)
               ELSE IF acc[k] # <<>> THEN Err("duplicate field")
               ELSE LET r == DecodeValue(fs[k], es, i, HasValueField(ty))
                    IN IF ~r.ok THEN r
                       ELSE DecodeFields(ty, es, r.next, [acc EXCEPT ![k] = <<r.val>>])

DecodeElem(ty, e) ==
    DecodeFields(ty, KeyStream(ty, e), 1, [k \in 1..Len(Fields(ty)) |-> <<>>])

\* from_str::<T>: the root element read as the target type.
Decode(ty, e) == IF ty = "SdfType" THEN DecodeEnum(e) ELSE DecodeElem(ty, e)

(***************************************************************************)
(* Encode.                                                                 *)
(***************************************************************************)
RECURSIVE Flatten(_)
Flatten(ss) == IF ss = <<>> THEN <<>> ELSE Head(ss) \o Flatten(Tail(ss))

IntText(x) == CHOOSE t \in DOMAIN IntTexts : IntTexts[t] = x

RECURSIVE EncodeFields(_, _)

\* An SdfType written as the element of its variant.
EncodeEnum(x) ==
    E(x.variant, <<>>,
      CASE x.variant = "world" -> EncodeFields("World", x.val)
        [] x.variant = "model" -> EncodeFields("Model", x.val)
        [] OTHER -> <<>>,
      "")

\* serialize_field(key, value): the derive calls it for every field (no
\* field is skipped); a None writes nothing between the field's tags.
EncodeValue(f, v) ==
    IF f.opt /\ v = None THEN << Leaf(f.key, "") >>
    ELSE LET x == IF f.opt THEN v[1] ELSE v
         IN CASE f.kind = "String" -> << Leaf(f.key, x) >>
              [] f.kind = "bool" -> << Leaf(f.key, IF x THEN "true" ELSE "false") >>
              [] f.kind \in {"i64", "u64"} -> << Leaf(f.key, IntText(x)) >>
              [] f.kind = "Vec" ->
                   [n \in 1..Len(x) |-> E(f.key, <<>>, EncodeFields(f.ety, x[n]), "")]
              [] f.kind = "struct" -> << E(f.key, <<>>, EncodeFields(f.ety, x), "") >>
              [] f.kind = "enum" -> << E(f.key, <<>>, << EncodeEnum(x) >>, "") >>

\* The generated serialize: the fields in declaration order.
EncodeFields(ty, val) ==
    Flatten([k \in 1..Len(Fields(ty)) |-> EncodeValue(Fields(ty)[k], val[Fields(ty)[k].name])])

\* to_string: the value written under its renamed element.
Encode(ty, val) ==
    IF ty = "SdfType" THEN EncodeEnum(val) ELSE E(Rename(ty), <<>>, EncodeFields(ty, val), "")

(***************************************************************************)
(* Inputs: the documents handed to decode, and the Documents application   *)
(* code constructs directly.                                               *)
(***************************************************************************)
A(k, v) == <<k, v>>

P1 == E("plugin", << A("name", "p1"), A("filename", "libp1.so") >>, <<>>, "")

P2 == E("plugin", << A("name", "p2"), A("filename", "libp2.so") >>, <<>>, "")

PluginNoFilename == E("plugin", << A("name", "p3") >>, <<>>, "")

IncludeBare == E("include", <<>>, << Leaf("uri", "model://arm") >>, "")

IncludeFull == E("include", <<>>, << Leaf("uri", "model://arm"), Leaf("name", "arm"), P1 >>, "")

GraspFull ==
    E("grasp_check", <<>>,
      << Leaf("detach_step", "40"), Leaf("attach_step", "20"), Leaf("min_contact_count", "2") >>, "")

GripperFull ==
    E("gripper", << A("name", "g1") >>, << GraspFull, Leaf("palm_link", "palm") >>, "")

\* The documents of test_sdf and test_model (without their xml declaration).
TestSdfModel ==
    E("model", << A("name", "box") >>,
      << Leaf("pose", "0 0 0.5 0 0 0"), Leaf("static", "false"), Leaf("self_collide", "true") >>, "")

TestModelModel ==
    E("model", << A("name", "box") >>,
      << Leaf("pose", "0 0 0.5 0 0 0"), Leaf("static", "false"),
         E("plugin", << A("filename", "libMyPlugin.so"), A("name", "my_plugin") >>, <<>>, "") >>, "")

ModelTwoPlugins == E("model", << A("name", "arm") >>, << P1, P2 >>, "")

ModelNoName == E("model", <<>>, << Leaf("static", "true") >>, "")

Pool(ty) ==
    CASE ty = "Sdf" ->
           { Leaf("world", ""), TestSdfModel, TestModelModel, ModelTwoPlugins, ModelNoName,
             Leaf("actor", ""), Leaf("light", ""), Leaf("junk", "") }
      [] ty = "Model" ->
           { Leaf("static", "false"), Leaf("static", "maybe"), Leaf("self_collide", "true"),
             Leaf("allow_auto_disable", "false"), Leaf("enable_wind", "true"),
             Leaf("pose", "0 0 0.5 0 0 0"), Leaf("canonical_link", "base"),
             Leaf("placement_frame", "f1"),
             P1, P2, PluginNoFilename, IncludeBare, IncludeFull, Leaf("include", ""),
             E("link", << A("name", "base") >>, <<>>, ""), Leaf("link", ""),
             E("frame", << A("name", "f1") >>, <<>>, ""), Leaf("frame", ""),
             E("model", << A("name", "inner") >>, <<>>, ""), Leaf("joint", ""),
             GripperFull, Leaf("gripper", "") }
      [] ty = "Include" ->
           { Leaf("uri", "model://arm"), Leaf("name", "arm"), Leaf("static", "true"),
             Leaf("placement_frame", "f1"), Leaf("pose", "1 0 0 0 0 0"), P1, P2,
             PluginNoFilename }
      [] ty = "Frame" -> { Leaf("pose", "1 0 0 0 0 0"), Leaf("junk", "") }
      [] ty = "Gripper" ->
           { GraspFull, Leaf("grasp_check", ""), Leaf("gripper_link", "finger"),
             Leaf("palm_link", "palm"),
             E("grasp_check", <<>>, << Leaf("min_contact_count", "-1") >>, "") }
      [] ty = "GraspCheck" ->
           { Leaf("detach_step", "40"), Leaf("detach_step", "-1"), Leaf("attach_step", "20"),
             Leaf("attach_step", "soon"), Leaf("min_contact_count", "2"),
             Leaf("min_contact_count", "-1") }
      [] OTHER -> { Leaf("junk", "") }

AttrChoices(ty) ==
    CASE ty = "Sdf" -> { <<>>, << A("version", "1.5") >>, << A("version", "1.8") >> }
      [] ty = "Plugin" ->
           { <<>>, << A("name", "p1") >>, << A("filename", "libp1.so") >>,
             << A("filename", "libp1.so"), A("name", "p1") >> }
      [] ty = "Frame" ->
           { <<>>, << A("name", "f1") >>, << A("attached_to", "base") >>,
             << A("name", "f1"), A("attached_to", "base") >> }
      [] ty \in {"Model", "NestedModel", "Link", "Gripper"} -> { <<>>, << A("name", "box") >> }
      [] OTHER -> { <<>> }

SeqsUpTo(S, n) == UNION {[1..m -> S] : m \in 0..n}

Structs ==
    {"Sdf", "World", "Model", "Include", "Plugin", "Frame", "NestedModel", "Link", "Joint",
     "Gripper", "GraspCheck"}

Targets == Structs \cup {"SdfType"}

Inputs(ty) ==
    IF ty = "SdfType" THEN Pool("Sdf")
    ELSE {E(Rename(ty), a, k, "") : a \in AttrChoices(ty), k \in SeqsUpTo(Pool(ty), MaxKids)}
         \cup (IF ty = "Sdf" THEN { Leaf("sdf", "1.8") } ELSE {})

\* The Document test_sdf expects, and its variations built in application code.
expected ==
    [version |-> "1.8",
     sdf_type |->
       [variant |-> "model",
        val |-> [name |-> "box", canonical_link |-> None, placement_frame |-> None,
                 static |-> Some(FALSE), self_collide |-> Some(TRUE),
                 pose |-> Some("0 0 0.5 0 0 0"), allow_auto_disable |-> Some(TRUE),
                 include |-> <<>>, model |-> <<>>, enable_wind |-> Some(FALSE),
                 frame |-> <<>>, link |-> <<>>, joint |-> <<>>, plugin |-> <<>>,
                 gripper |-> <<>>]]]

Documents ==
    {[version |-> v, sdf_type |-> t] :
        v \in {"1.8", "1.5"},
        t \in {expected.sdf_type, [variant |-> "world", val |-> <<>>],
               [variant |-> "actor", val |-> <<>>], [variant |-> "light", val |-> <<>>]}}

(***************************************************************************)
(* The codec session: one text decoded (or one Document constructed), then *)
(* encoded, then decoded again, as the round-trip test does.               *)
(***************************************************************************)
Init ==
    /\ target \in Targets
    /\ input \in Inputs(target)
    /\ origin = "none"
    /\ doc = Err("none")
    /\ encoded = NoElem
    /\ redecoded = Err("none")
    /\ pc = "start"

DecodeInput ==
    /\ pc = "start"
    /\ origin' = "decode"
    /\ doc' = Decode(target, input)
    /\ pc' = IF doc'.ok THEN "have" ELSE "failed"
    /\ UNCHANGED <<target, input, encoded, redecoded>>

Construct ==
    /\ pc = "start"
    /\ target = "Sdf"
    /\ \E d \in Documents : doc' = Ok(d)
    /\ origin' = "construct"
    /\ input' = NoElem
    /\ pc' = "have"
    /\ UNCHANGED <<target, encoded, redecoded>>

EncodeDoc ==
    /\ pc = "have"
    /\ encoded' = Encode(target, doc.val)
    /\ pc' = "encoded"
    /\ UNCHANGED <<target, input, origin, doc, redecoded>>

Redecode ==
    /\ pc = "encoded"
    /\ redecoded' = Decode(target, encoded)
    /\ pc' = "done"
    /\ UNCHANGED <<target, input, origin, doc, encoded>>

Next == DecodeInput \/ Construct \/ EncodeDoc \/ Redecode

Spec == Init /\ [][Next]_vars

(***************************************************************************)
(* Vocabulary of the properties.                                           *)
(***************************************************************************)
\* The element carries key as an attribute or as a child element.
HasKey(e, key) ==
    \/ \E i \in 1..Len(e.attrs) : e.attrs[i][1] = key
    \/ \E i \in 1..Len(e.kids) : e.kids[i].tag = key

\* The text the element gives for key (its first occurrence).
TextOf(e, key) ==
    IF \E i \in 1..Len(e.attrs) : e.attrs[i][1] = key
    THEN e.attrs[CHOOSE i \in 1..Len(e.attrs) : e.attrs[i][1] = key][2]
    ELSE e.kids[CHOOSE i \in 1..Len(e.kids) :
                  e.kids[i].tag = key /\ \A j \in 1..(i - 1) : e.kids[j].tag # key].text

\* How many children of the root name a variant of the top-level choice.
Recognized(e) == Cardinality({i \in 1..Len(e.kids) : e.kids[i].tag \in SdfType})

\* Root documents the format accepts: one well-formed top-level child.
WellFormedSdf(e) ==
    /\ Len(e.kids) = 1
    /\ e.kids[1] \in { Leaf("world", ""), TestSdfModel, TestModelModel, ModelTwoPlugins,
                       Leaf("actor", ""), Leaf("light", "") }

VersionOf(e) == IF HasKey(e, "version") THEN TextOf(e, "version") ELSE "1.8"

Decoded == origin = "decode" /\ pc # "start"

Written == pc \in {"encoded", "done"}

C3_DefaultMaterialization ==
    (Decoded /\ target = "Model" /\ doc.ok) =>
        /\ ~HasKey(input, "allow_auto_disable") => doc.val.allow_auto_disable = Some(TRUE)
        /\ ~HasKey(input, "enable_wind") => doc.val.enable_wind = Some(FALSE)
        /\ doc.val.allow_auto_disable # None
        /\ doc.val.enable_wind # None

C3_Witness ==
    /\ Decoded /\ target = "Model" /\ doc.ok
    /\ ~HasKey(input, "allow_auto_disable") /\ ~HasKey(input, "enable_wind")
    /\ doc.val.allow_auto_disable = Some(TRUE) /\ doc.val.enable_wind = Some(FALSE)

\* C4 (stated as claimed): decoding a well-formed root succeeds and the
\* Document's version is the root's version attribute, or "1.8" without one.
C4_VersionFromAttribute ==
    (Decoded /\ target = "Sdf" /\ WellFormedSdf(input)) =>
        (doc.ok /\ doc.val.version = VersionOf(input))

Distinct(e) == \A i, j \in 1..Len(e.kids) : e.kids[i].tag = e.kids[j].tag => i = j

CollectionKeys(ty) ==
    CASE ty = "Model" -> {"include", "model", "frame", "link", "joint", "plugin", "gripper"}
      [] ty = "Include" -> {"plugin"}

GoodScalars(ty) ==
    CASE ty = "Model" ->
           { Leaf("static", "false"), Leaf("self_collide", "true"),
             Leaf("allow_auto_disable", "false"), Leaf("enable_wind", "true"),
             Leaf("pose", "0 0 0.5 0 0 0"), Leaf("canonical_link", "base"),
             Leaf("placement_frame", "f1") }
      [] ty = "Include" ->
           { Leaf("uri", "model://arm"), Leaf("name", "arm"), Leaf("static", "true"),
             Leaf("placement_frame", "f1"), Leaf("pose", "1 0 0 0 0 0") }

Required(ty) ==
    CASE ty = "Model" -> {"name"}
      [] ty = "Include" -> {"uri"}
      [] ty = "Plugin" -> {"name", "filename"}
      [] ty \in {"Frame", "Link", "Gripper"} -> {"name"}
      [] OTHER -> {}

\* C5 (stated as claimed): a model or include element that is valid and has
\* no child of any collection kind decodes, with every collection empty.
C5_CollectionsDefaultEmpty ==
    (/\ Decoded /\ target \in {"Model", "Include"}
     /\ \A i \in 1..Len(input.kids) : input.kids[i] \in GoodScalars(target)
     /\ Distinct(input)
     /\ \A k \in Required(target) : HasKey(input, k))
    => (doc.ok /\ \A c \in CollectionKeys(target) : doc.val[c] = <<>>)

Names(ps) == [i \in 1..Len(ps) |-> ps[i].name]

TagNames(es) == [i \in 1..Len(es) |-> TextOf(es[i], "name")]

\* C6 (stated as claimed): a model whose children are plugins decodes to the
\* plugins in document order, alone or as the model of a Document, and
\* decoding the encoded value again yields the same order.
C6_OrderPreservation ==
    /\ (/\ Decoded /\ target = "Model" /\ HasKey(input, "name")
        /\ input.kids # <<>> /\ \A i \in 1..Len(input.kids) : input.kids[i] \in {P1, P2})
       => /\ doc.ok /\ Names(doc.val.plugin) = TagNames(input.kids)
          /\ pc = "done" =>
               (redecoded.ok /\ Names(redecoded.val.plugin) = TagNames(input.kids))
    /\ (Decoded /\ target = "Sdf" /\ input.kids = << ModelTwoPlugins >>)
       => (doc.ok /\ Names(doc.val.sdf_type.val.plugin) = <<"p1", "p2">>)

\* The element, or an element of one of its collections, lacks a required field.
ChildType(ty, tag) ==
    CASE ty = "Model" /\ tag = "include" -> "Include"
      [] ty \in {"Model", "Include"} /\ tag = "plugin" -> "Plugin"
      [] ty = "Model" /\ tag = "frame" -> "Frame"
      [] ty = "Model" /\ tag = "link" -> "Link"
      [] ty = "Model" /\ tag = "gripper" -> "Gripper"
      [] OTHER -> "none"

RECURSIVE MissingRequired(_, _)
MissingRequired(ty, e) ==
    \/ \E k \in Required(ty) : ~HasKey(e, k)
    \/ \E i \in 1..Len(e.kids) :
          /\ ChildType(ty, e.kids[i].tag) # "none"
          /\ MissingRequired(ChildType(ty, e.kids[i].tag), e.kids[i])

\* C7: decoding an element that lacks a required field (Model.name,
\* Include.uri, Plugin.name, Plugin.filename, Frame.name, Link.name,
\* Gripper.name), itself or in a nested element, fails and returns no value.
C7_RequiredFieldAbsence ==
    (Decoded /\ target \in Structs /\ MissingRequired(target, input)) => (~doc.ok /\ pc = "failed")

C7_Witness ==
    /\ Decoded /\ target = "Model" /\ ~HasKey(input, "name")
    /\ Len(input.kids) > 0 /\ \A i \in 1..Len(input.kids) : input.kids[i] \in GoodScalars("Model")
    /\ Distinct(input)
    /\ ~doc.ok /\ pc = "failed"

OptFields(ty) ==
    CASE ty = "Model" ->
           { <<"canonical_link", "String">>, <<"placement_frame", "String">>,
             <<"static", "bool">>, <<"self_collide", "bool">>, <<"pose", "String">> }
      [] ty = "Include" ->
           { <<"name", "String">>, <<"static", "bool">>, <<"placement_frame", "String">>,
             <<"pose", "String">> }
      [] ty = "Frame" -> { <<"attached_to", "String">>, <<"pose", "String">> }
      [] ty = "Gripper" ->
           { <<"grasp_check", "struct">>, <<"gripper_link", "String">>,
             <<"palm_link", "String">> }
      [] ty = "GraspCheck" ->
           { <<"detach_step", "int">>, <<"attach_step", "int">>, <<"min_contact_count", "int">> }
      [] OTHER -> {}

Holds(v, kind, text) ==
    CASE kind = "String" -> v = Some(text)
      [] kind = "bool" -> v = Some(text = "true")
      [] kind = "int" -> v = Some(IntTexts[text])
      [] kind = "struct" -> v # None

\* Decode half of the no-default policy: absent gives None, present gives
\* exactly the value.
NoDefaultDecode ==
    (Decoded /\ doc.ok) =>
        \A f \in OptFields(target) :
            IF HasKey(input, f[1]) THEN Holds(doc.val[f[1]], f[2], TextOf(input, f[1]))
            ELSE doc.val[f[1]] = None

\* C8 (stated as claimed): for every optional field without a default,
\* absent in the input gives None, present gives exactly the value, and a
\* None field is omitted from the encode output.
C8_NoDefaultPolicy ==
    /\ NoDefaultDecode
    /\ (Decoded /\ Written) =>
          \A f \in OptFields(target) : doc.val[f[1]] = None => ~HasKey(encoded, f[1])

====
